---- MODULE Spec2Model ----
(***************************************************************************)
(* Weather app: the Backend-for-Frontend route handler POST                *)
(* (src/app/api/weather/route.ts, lines 5-66) and the client page's        *)
(* onSubmit (route.ts lines 97-140; src/unnamed/part_000 lines 29-70 hold  *)
(* the same statements in the same order, so one model serves both pages). *)
(*                                                                         *)
(* Numbers are fixed-point, in hundredths: Num(2040) is 20.4.              *)
(* Strings that the code trims or passes on as the city are kept as        *)
(* sequences of characters (Text); all other strings are atomic (Str).     *)
(***************************************************************************)
EXTENDS Integers, Sequences, FiniteSets, TLC

VARIABLES env, hx, city, loading, error, data, calls, step, bgClass

vars == <<env, hx, city, loading, error, data, calls, step, bgClass>>

\* Longest text typed into the city field or sent as a request's city.
MaxLen == 2

\* Most calls of the page to the handler that are in flight together.
MaxInFlight == 2

\* Most words in a condition string given to getBackgroundClass.
MaxWords == 2

-----------------------------------------------------------------------------
(* JavaScript / JSON values *)

Undefined == [k |-> "undefined"]
Null == [k |-> "null"]
NaN == [k |-> "nan"]
NotJson == [k |-> "notjson"]
NoBody == [k |-> "nobody"]
Num(n) == [k |-> "num", v |-> n]
Str(s) == [k |-> "str", v |-> s]
Text(cs) == [k |-> "text", v |-> cs]
Obj(f) == [k |-> "obj", f |-> f]
Arr(s) == [k |-> "arr", v |-> s]

Chars == {" ", "a"}
Texts == UNION {[1..n -> Chars] : n \in 0..MaxLen}

IsNullish(x) == x.k \in {"undefined", "null"}

\* a ?? b
Coalesce(a, b) == IF IsNullish(a) THEN b ELSE a

\* o?.name : undefined for a nullish o and for a property o does not have
Get(o, name) ==
    IF o.k = "obj" /\ name \in DOMAIN o.f THEN o.f[name] ELSE Undefined

\* a?.[0]
First(a) == IF a.k = "arr" /\ Len(a.v) > 0 THEN a.v[1] ELSE Undefined

\* !x
Falsy(x) ==
    \/ x.k \in {"undefined", "null", "nan"}
    \/ x.k = "num" /\ x.v = 0
    \/ x.k = "str" /\ x.v = ""
    \/ x.k = "text" /\ x.v = <<>>

\* typeof x === "string"
IsString(x) == x.k \in {"str", "text"}

RECURSIVE TrimStart(_)
TrimStart(s) == IF s # <<>> /\ Head(s) = " " THEN TrimStart(Tail(s)) ELSE s

RECURSIVE TrimEnd(_)
TrimEnd(s) ==
    IF s # <<>> /\ s[Len(s)] = " " THEN TrimEnd(SubSeq(s, 1, Len(s) - 1)) ELSE s

\* String.prototype.trim
Trim(s) == TrimEnd(TrimStart(s))

\* Number(x)
ToNumber(x) ==
    CASE x.k = "num" -> x
      [] x.k = "null" -> Num(0)
      [] x.k = "str" /\ x.v = "" -> Num(0)
      [] x.k = "str" /\ x.v = "7" -> Num(700)
      [] x.k = "text" /\ Trim(x.v) = <<>> -> Num(0)
      [] OTHER -> NaN

\* a Math.round that drops the fraction instead (as parseInt or Math.trunc would)
MathRoundTrunc(x) ==
    IF x.k = "nan" THEN NaN
    ELSE Num((IF x.v >= 0 THEN x.v \div 100 ELSE -((-x.v) \div 100)) * 100)

\* Math.round(x): to the nearest integer, halves towards +Infinity
MathRound(x) ==
    IF x.k = "nan" THEN NaN ELSE Num(((2 * x.v + 100) \div 200) * 100)

\* x * 3.6
Times3_6(x) == IF x.k = "nan" THEN NaN ELSE Num((x.v * 36) \div 10)

\* JSON.stringify of a property value: NaN is written as null
JsonValue(x) == IF x.k = "nan" THEN Null ELSE x

JsonObject(o) == Obj([n \in DOMAIN o.f |-> JsonValue(o.f[n])])

-----------------------------------------------------------------------------
(* Outcomes of a piece of code: a return value, a thrown fault, or the    *)
(* outbound fetch it awaits.                                              *)

Return(r) == [t |-> "return", res |-> r]
Throw == [t |-> "throw"]
Fetch(c, u) == [t |-> "fetch", city |-> c, url |-> u]

NullBodyStatus == {101, 103, 204, 205, 304}

\* Response.json(value, {status}): throws for a status that allows no body
ResponseJson(value, status) ==
    IF status \notin 200..599 \/ status \in NullBodyStatus
    THEN Throw
    ELSE Return([status |-> status, body |-> JsonObject(value)])

ErrorBody(m) == Obj([error |-> m])

CityRequired == Str("City is required.")
MissingKey ==
    Str("Server is missing OpenWeather API key. Set OPENWEATHER_API_KEY in your environment.")
FailedToFetch == Str("Failed to fetch weather.")
UnexpectedServerError == Str("Unexpected server error fetching weather.")

\* (await req.json().catch(() => null))
ReqJson(req) == IF req.k \in {"nobody", "notjson"} THEN Null ELSE req

\* body?.city without the trim
CityOfNoTrim(body) ==
    LET c == Get(body, "city") IN
    IF IsNullish(c) THEN Return(Undefined)
    ELSE IF c.k = "text" THEN Return(c)
    ELSE Throw

\* body?.city?.trim(): throws when city is neither nullish nor a string
CityOf(body) ==
    LET c == Get(body, "city") IN
    IF IsNullish(c) THEN Return(Undefined)
    ELSE IF c.k = "text" THEN Return(Text(Trim(c.v)))
    ELSE Throw

\* POST up to the outbound call, without the check of the credential
PostBeginNoKeyCheck(req, e) ==
    LET c == CityOf(ReqJson(req)) IN
    IF c.t = "throw" THEN Throw
    ELSE IF Falsy(c.res) THEN ResponseJson(ErrorBody(CityRequired), 400)
    ELSE Fetch(c.res, [q |-> c.res, appid |-> e.OPENWEATHER_API_KEY, units |-> "metric"])

\* POST up to the outbound call: the 400, the missing-credential 500, or
\* the fetch of the provider with q, appid and units
PostBegin(req, e) ==
    LET c == CityOf(ReqJson(req))
        apiKey == e.OPENWEATHER_API_KEY
    IN  IF c.t = "throw" THEN Throw
        ELSE IF Falsy(c.res) THEN ResponseJson(ErrorBody(CityRequired), 400)
        ELSE IF Falsy(apiKey) THEN ResponseJson(ErrorBody(MissingKey), 500)
        ELSE Fetch(c.res, [q |-> c.res, appid |-> apiKey, units |-> "metric"])

\* res.ok
Ok(res) == res.status \in 200..299

\* the non-OK branch of POST
UpstreamError(res) ==
    LET j == res.body
        m == Get(j, "message")
        message == IF j.k # "notjson" /\ IsString(m) THEN m ELSE FailedToFetch
    IN  ResponseJson(ErrorBody(message), res.status)

\* the payload built from the provider's JSON
Payload(d, c, nowMs) ==
    LET w0 == First(Get(d, "weather")) IN
    Obj([city |-> Coalesce(Get(d, "name"), c),
         country |-> Coalesce(Get(Get(d, "sys"), "country"), Str("")),
         tempC |-> MathRound(ToNumber(Coalesce(Get(Get(d, "main"), "temp"), Num(0)))),
         feelsC |-> MathRound(ToNumber(Coalesce(Get(Get(d, "main"), "feels_like"), Num(0)))),
         condition |-> Coalesce(Get(w0, "main"), Str("")),
         description |-> Coalesce(Get(w0, "description"), Str("")),
         icon |-> Coalesce(Get(w0, "icon"), Str("01d")),
         humidity |-> ToNumber(Coalesce(Get(Get(d, "main"), "humidity"), Num(0))),
         windKmh |-> MathRound(Times3_6(ToNumber(Coalesce(Get(Get(d, "wind"), "speed"), Num(0))))),
         sunrise |-> ToNumber(Coalesce(Get(Get(d, "sys"), "sunrise"), Num(0))),
         sunset |-> ToNumber(Coalesce(Get(Get(d, "sys"), "sunset"), Num(0))),
         timezone |-> ToNumber(Coalesce(Get(d, "timezone"), Num(0))),
         dt |-> ToNumber(Coalesce(Get(d, "dt"), Num((nowMs \div 1000) * 100)))])

\* POST from the outbound call's settling on
PostResume(c, prov, nowMs) ==
    IF prov.t = "reject" THEN Throw
    ELSE IF ~Ok(prov) THEN UpstreamError(prov)
    ELSE IF prov.body.k = "notjson" THEN Throw
    ELSE ResponseJson(Payload(prov.body, c, nowMs), 200)

\* POST without its catch clause
CatchRethrows(o) == o

\* the catch clause of POST
Catch(o) ==
    IF o.t = "throw" THEN ResponseJson(ErrorBody(UnexpectedServerError), 500) ELSE o

-----------------------------------------------------------------------------
(* The requests the handler can receive and the outcomes of its outbound   *)
(* call to the provider.                                                   *)

Requests ==
    {NoBody, NotJson, Null, Num(500)}
        \cup {Obj([city |-> c]) : c \in {Undefined, Null, Num(500)}}
        \cup {Obj([city |-> Text(t)]) : t \in Texts}

Leaves ==
    {"name", "country", "sunrise", "sunset", "temp", "feels_like", "humidity",
     "wmain", "wdescription", "wicon", "speed", "timezone", "dt"}
NumLeaves ==
    {"sunrise", "sunset", "temp", "feels_like", "humidity", "speed", "timezone", "dt"}
StrLeaves == {"country", "wmain", "wdescription", "wicon"}

\* the provider's JSON, from its leaf values
Build(l) ==
    Obj([name |-> l.name,
         sys |-> Obj([country |-> l.country, sunrise |-> l.sunrise, sunset |-> l.sunset]),
         main |-> Obj([temp |-> l.temp, feels_like |-> l.feels_like, humidity |-> l.humidity]),
         weather |-> Arr(<<Obj([main |-> l.wmain, description |-> l.wdescription,
                                icon |-> l.wicon])>>),
         wind |-> Obj([speed |-> l.speed]),
         timezone |-> l.timezone,
         dt |-> l.dt])

Paris == <<"P", "a", "r", "i", "s">>

ParisLeaves ==
    [name |-> Text(Paris), country |-> Str("FR"), sunrise |-> Num(100000),
     sunset |-> Num(200000), temp |-> Num(2040), feels_like |-> Num(1960),
     humidity |-> Num(5500), wmain |-> Str("Clear"), wdescription |-> Str("clear sky"),
     wicon |-> Str("01d"), speed |-> Num(500), timezone |-> Num(360000),
     dt |-> Num(150000)]

ParisBody == Build(ParisLeaves)

NumVals ==
    {Undefined, Null, Num(0), Num(2050), Num(-2050), Num(1960), Num(-1960), Num(130),
     Str("abc"), Str("7"), Str("")}
StrVals == {Undefined, Null, Str(""), Str("Rain")}
NameVals == {Undefined, Null, Text(<<>>), Text(<<"P">>)}

LeafVals(f) ==
    IF f \in NumLeaves THEN NumVals ELSE IF f \in StrLeaves THEN StrVals ELSE NameVals

OkBodies ==
    {ParisBody, NotJson, Null, Num(500)}
        \cup {Build([ParisLeaves EXCEPT ![f] = v]) : v \in NumVals \cup StrVals \cup NameVals,
                                                     f \in Leaves}
        \cup {Build([f \in Leaves |-> IF f \in NumLeaves THEN v ELSE Undefined]) : v \in NumVals}
        \cup {Obj([ParisBody.f EXCEPT ![g] = v]) :
                 g \in {"sys", "main", "weather", "wind"}, v \in {Undefined, Null, Arr(<<>>)}}

ErrBodies ==
    {NotJson, Null}
        \cup {Obj([message |-> m]) :
                 m \in {Undefined, Str(""), Str("city not found"), Str("internal issue"),
                        Num(40400)}}

Providers ==
    {[t |-> "reject"]}
        \cup {[t |-> "response", status |-> 200, body |-> b] : b \in OkBodies}
        \cup {[t |-> "response", status |-> s, body |-> NotJson] : s \in {204, 304}}
        \cup {[t |-> "response", status |-> s, body |-> b] :
                 s \in {401, 404, 500}, b \in ErrBodies}

\* Date.now(), in milliseconds
NowMs == {2500, 3999}

-----------------------------------------------------------------------------
(* The background theme of the page: getBackgroundClass, of route.ts and   *)
(* of part_000, applied to data?.condition at every render.                *)

UpperCase == <<"A", "B", "C", "D", "E", "F", "G", "H", "I", "J", "K", "L", "M", "N", "O", "P", "Q", "R", "S", "T", "U", "V", "W", "X", "Y", "Z">>
LowerCase == <<"a", "b", "c", "d", "e", "f", "g", "h", "i", "j", "k", "l", "m", "n", "o", "p", "q", "r", "s", "t", "u", "v", "w", "x", "y", "z">>

\* String.prototype.toLowerCase
ToLowerCase(s) ==
    [i \in 1..Len(s) |->
        IF \E j \in 1..Len(UpperCase) : UpperCase[j] = s[i]
        THEN LowerCase[CHOOSE j \in 1..Len(UpperCase) : UpperCase[j] = s[i]]
        ELSE s[i]]

\* String.prototype.includes
Includes(s, kw) ==
    \E i \in 0..(Len(s) - Len(kw)) : SubSeq(s, i + 1, i + Len(kw)) = kw

KwClear == <<"c", "l", "e", "a", "r">>
KwCloud == <<"c", "l", "o", "u", "d">>
KwRain == <<"r", "a", "i", "n">>
KwDrizzle == <<"d", "r", "i", "z", "z", "l", "e">>
KwThunder == <<"t", "h", "u", "n", "d", "e", "r">>
KwSnow == <<"s", "n", "o", "w">>
KwMist == <<"m", "i", "s", "t">>
KwFog == <<"f", "o", "g">>
KwHaze == <<"h", "a", "z", "e">>
KwSmoke == <<"s", "m", "o", "k", "e">>

\* the characters of a condition: of a Text, and of the atomic strings the
\* provider bodies of this model carry
CondChars(x) ==
    CASE x.k = "text" -> x.v
      [] x = Str("Clear") -> <<"C", "l", "e", "a", "r">>
      [] x = Str("Rain") -> <<"R", "a", "i", "n">>
      [] OTHER -> <<>>

\* the classes getBackgroundClass of route.ts returns, rule by rule
RouteClasses ==
    <<"bg-gradient-to-b from-yellow-50 to-amber-100",
      "bg-gradient-to-b from-zinc-100 to-zinc-200",
      "bg-gradient-to-b from-slate-100 to-slate-200",
      "bg-gradient-to-b from-stone-100 to-stone-200",
      "bg-gradient-to-b from-neutral-100 to-neutral-200",
      "bg-gradient-to-b from-gray-100 to-gray-200">>
RouteDefault == "bg-gradient-to-b from-gray-50 to-gray-100"

\* the classes getBackgroundClass of part_000 returns, rule by rule
Part000Classes ==
    <<"bg-gradient-to-br from-yellow-50 to-amber-100",
      "bg-gradient-to-br from-zinc-100 to-zinc-300",
      "bg-gradient-to-br from-slate-200 to-slate-400",
      "bg-gradient-to-br from-stone-300 to-stone-500",
      "bg-gradient-to-br from-neutral-100 to-neutral-300",
      "bg-gradient-to-br from-gray-100 to-gray-300">>
Part000Default == "bg-gradient-to-br from-gray-50 to-gray-200"

\* getBackgroundClass of route.ts without the toLowerCase
GetBackgroundClassCaseSensitive(condition) ==
    LET c == CondChars(IF Falsy(condition) THEN Str("") ELSE condition) IN
    IF Includes(c, KwClear) THEN RouteClasses[1]
    ELSE IF Includes(c, KwCloud) THEN RouteClasses[2]
    ELSE IF Includes(c, KwRain) \/ Includes(c, KwDrizzle) THEN RouteClasses[3]
    ELSE IF Includes(c, KwThunder) THEN RouteClasses[4]
    ELSE IF Includes(c, KwSnow) THEN RouteClasses[5]
    ELSE IF Includes(c, KwMist) \/ Includes(c, KwFog) \/ Includes(c, KwHaze)
            \/ Includes(c, KwSmoke) THEN RouteClasses[6]
    ELSE RouteDefault

\* getBackgroundClass of route.ts
GetBackgroundClass(condition) ==
    LET c == ToLowerCase(CondChars(IF Falsy(condition) THEN Str("") ELSE condition)) IN
    IF Includes(c, KwClear) THEN RouteClasses[1]
    ELSE IF Includes(c, KwCloud) THEN RouteClasses[2]
    ELSE IF Includes(c, KwRain) \/ Includes(c, KwDrizzle) THEN RouteClasses[3]
    ELSE IF Includes(c, KwThunder) THEN RouteClasses[4]
    ELSE IF Includes(c, KwSnow) THEN RouteClasses[5]
    ELSE IF Includes(c, KwMist) \/ Includes(c, KwFog) \/ Includes(c, KwHaze)
            \/ Includes(c, KwSmoke) THEN RouteClasses[6]
    ELSE RouteDefault

\* getBackgroundClass of part_000
GetBackgroundClassPart000(condition) ==
    LET c == ToLowerCase(CondChars(IF Falsy(condition) THEN Str("") ELSE condition)) IN
    IF Includes(c, KwClear) THEN Part000Classes[1]
    ELSE IF Includes(c, KwCloud) THEN Part000Classes[2]
    ELSE IF Includes(c, KwRain) \/ Includes(c, KwDrizzle) THEN Part000Classes[3]
    ELSE IF Includes(c, KwThunder) THEN Part000Classes[4]
    ELSE IF Includes(c, KwSnow) THEN Part000Classes[5]
    ELSE IF Includes(c, KwMist) \/ Includes(c, KwFog) \/ Includes(c, KwHaze)
            \/ Includes(c, KwSmoke) THEN Part000Classes[6]
    ELSE Part000Default

Pages == {"route", "part_000"}

\* const bgClass = getBackgroundClass(data?.condition), in each page
BgClasses(d) ==
    [p \in Pages |->
        IF p = "route" THEN GetBackgroundClass(Get(d, "condition"))
        ELSE GetBackgroundClassPart000(Get(d, "condition"))]

\* the words of the condition strings: the provider's condition names, in
\* several cases, and one that no rule names
Words ==
    {<<"C", "l", "e", "a", "r">>,
     <<"C", "L", "E", "A", "R">>,
     <<"C", "l", "o", "u", "d", "s">>,
     <<"R", "a", "i", "n">>,
     <<"r", "a", "i", "n">>,
     <<"D", "r", "i", "z", "z", "l", "e">>,
     <<"T", "h", "u", "n", "d", "e", "r", "s", "t", "o", "r", "m">>,
     <<"S", "n", "o", "w">>,
     <<"M", "i", "s", "t">>,
     <<"F", "o", "g">>,
     <<"H", "a", "z", "e">>,
     <<"S", "m", "o", "k", "e">>,
     <<"D", "u", "s", "t">>}

RECURSIVE JoinWords(_)
JoinWords(ws) ==
    IF Len(ws) = 0 THEN <<>>
    ELSE IF Len(ws) = 1 THEN ws[1]
    ELSE ws[1] \o <<" ">> \o JoinWords(Tail(ws))

\* the condition strings: up to MaxWords words, separated by spaces
Conditions == UNION {{JoinWords(ws) : ws \in [1..n -> Words]} : n \in 0..MaxWords}

-----------------------------------------------------------------------------
(* The handler as a process: one execution of POST at a time.              *)

HxIdle ==
    [stage |-> "idle", req |-> Undefined, city |-> Undefined, outbound |-> <<>>,
     prov |-> Undefined, now |-> 0, res |-> Undefined]

\* how an execution of POST ends: with the response it returns, or with a
\* fault that leaves the handler
Settle(h, o) ==
    LET r == Catch(o) IN
    IF r.t = "throw" THEN [h EXCEPT !.stage = "crashed"]
    ELSE [h EXCEPT !.stage = "done", !.res = r.res]

\* POST is called with a request and runs up to its outbound call
POST_Begin ==
    /\ hx.stage # "fetching"
    /\ \E req \in Requests :
          LET o == PostBegin(req, env)
              h == [HxIdle EXCEPT !.req = req]
          IN  hx' = IF o.t = "fetch"
                    THEN [h EXCEPT !.stage = "fetching", !.city = o.city,
                                   !.outbound = <<o.url>>]
                    ELSE Settle(h, o)
    /\ UNCHANGED <<env, city, loading, error, data, calls, step, bgClass>>

\* the outbound call settles and POST runs to its end
POST_Resume ==
    /\ hx.stage = "fetching"
    /\ \E prov \in Providers, nowMs \in NowMs :
          hx' = Settle([hx EXCEPT !.prov = prov, !.now = nowMs],
                       PostResume(hx.city, prov, nowMs))
    /\ UNCHANGED <<env, city, loading, error, data, calls, step, bgClass>>

Envs == {[OPENWEATHER_API_KEY |-> key] : key \in {Undefined, Str(""), Str("k")}}

Init ==
    /\ env \in Envs
    /\ hx = HxIdle
    /\ city = <<>>
    /\ loading = FALSE
    /\ error = Null
    /\ data = Null
    /\ calls = <<>>
    /\ step = [op |-> "init", out |-> Undefined]
    /\ bgClass = BgClasses(Null)

NextPOST == POST_Begin \/ POST_Resume

SpecPOST == Init /\ [][NextPOST]_vars

-----------------------------------------------------------------------------
(* The client page: its state is city, loading, error, data; calls holds   *)
(* the requests of its fetches to the handler that have not settled; step  *)
(* records the last operation and, for a settled fetch, its outcome.       *)

PleaseEnter == Str("Please enter a city name.")
CityNotFound == Str("City not found. Please check the spelling and try again.")
UnexpectedError == Str("Unexpected error. Please try again.")

\* messages of the faults the runtime throws: a failed fetch, a body that
\* is not JSON
NetworkError == [isError |-> TRUE, message |-> Str("Failed to fetch")]
SyntaxError == [isError |-> TRUE, message |-> Str("Unexpected token < in JSON")]

\* new Error(message)
NewError(m) == [isError |-> TRUE, message |-> m]

\* onSubmit up to its call of the handler, with the city field untrimmed
OnSubmitNoTrim(c, st) ==
    LET query == c IN
    IF Falsy(Text(query))
    THEN [st EXCEPT !.error = PleaseEnter, !.send = Undefined]
    ELSE [error |-> Null, data |-> Null, loading |-> TRUE,
          send |-> Obj([city |-> Text(query)])]

\* onSubmit up to its call of the handler: the new page state and the
\* request it sends (Undefined when it sends none)
OnSubmitBegin(c, st) ==
    LET query == Trim(c) IN
    IF Falsy(Text(query))
    THEN [st EXCEPT !.error = PleaseEnter, !.send = Undefined]
    ELSE [error |-> Null, data |-> Null, loading |-> TRUE,
          send |-> Obj([city |-> Text(query)])]

\* the message for a response that is not OK, without the 404 override
ResponseMessageNo404(res) ==
    LET j == res.body
        e == Get(j, "error")
    IN  IF j.k # "notjson" /\ ~Falsy(e) THEN e ELSE FailedToFetch

\* the message of the page for a response that is not OK
ResponseMessage(res) ==
    LET j == res.body
        e == Get(j, "error")
        message == IF j.k # "notjson" /\ ~Falsy(e) THEN e ELSE FailedToFetch
    IN  IF res.status = 404 THEN CityNotFound ELSE message

\* the try block of onSubmit from the settling of its fetch: the payload it
\* stores or the fault it throws
TryBlock(out) ==
    IF out.t = "reject" THEN [t |-> "throw", err |-> NetworkError]
    ELSE IF ~Ok(out) THEN [t |-> "throw", err |-> NewError(ResponseMessage(out))]
    ELSE IF out.body.k = "notjson" THEN [t |-> "throw", err |-> SyntaxError]
    ELSE [t |-> "stored", payload |-> out.body]

\* onSubmit's end with loading cleared on the success path only
OnSubmitEndNoFinally(out, st) ==
    LET r == TryBlock(out) IN
    IF r.t = "stored" THEN [st EXCEPT !.data = r.payload, !.loading = FALSE]
    ELSE [st EXCEPT !.error = r.err.message]

\* onSubmit's end with a catch clause that also drops the stored payload
OnSubmitEndClearsData(out, st) ==
    LET r == TryBlock(out) IN
    IF r.t = "stored" THEN [st EXCEPT !.data = r.payload, !.loading = FALSE]
    ELSE [st EXCEPT !.error = r.err.message, !.data = Null, !.loading = FALSE]

\* onSubmit from the settling of its fetch: try, catch, finally
OnSubmitEnd(out, st) ==
    LET r == TryBlock(out)
        tried == IF r.t = "stored" THEN [st EXCEPT !.data = r.payload]
                 ELSE [st EXCEPT !.error = IF r.err.isError THEN r.err.message
                                            ELSE UnexpectedError]
    IN  [tried EXCEPT !.loading = FALSE]

\* the handler from request to response
Handle(req, e, prov, nowMs) ==
    LET b == PostBegin(req, e) IN
    Catch(IF b.t = "fetch" THEN PostResume(b.city, prov, nowMs) ELSE b)

EmptyBody == Build([f \in Leaves |-> Undefined])

\* what the provider answers to the requests of the page
PageProviders ==
    {[t |-> "reject"]}
        \cup {[t |-> "response", status |-> 200, body |-> b] :
                 b \in {ParisBody, EmptyBody, NotJson}}
        \cup {[t |-> "response", status |-> 304, body |-> NotJson],
              [t |-> "response", status |-> 401, body |-> Obj([message |-> Str("Invalid API key")])],
              [t |-> "response", status |-> 404, body |-> Obj([message |-> Str("city not found")])],
              [t |-> "response", status |-> 500, body |-> Obj([message |-> Str("")])],
              [t |-> "response", status |-> 500, body |-> NotJson]}

\* how the page's fetch of the handler can settle: it fails, the handler
\* answers, or something in front of the handler answers with a page that
\* is no JSON
Outcomes(req) ==
    {[t |-> "reject"]}
        \cup {[t |-> "response", status |-> s, body |-> NotJson] : s \in {200, 404, 502}}
        \cup {LET r == Handle(req, env, prov, nowMs).res
              IN  [t |-> "response", status |-> r.status, body |-> r.body] :
                 prov \in PageProviders, nowMs \in NowMs}

PageState == [error |-> error, data |-> data, loading |-> loading, send |-> Undefined]

\* onChange of the city field
SetCity ==
    /\ \E t \in Texts : city' = t
    /\ step' = [op |-> "setCity", out |-> Undefined]
    /\ UNCHANGED <<env, hx, loading, error, data, calls, bgClass>>

\* onSubmit is called
OnSubmit ==
    LET r == OnSubmitBegin(city, PageState) IN
    /\ r.send.k = "undefined" \/ Len(calls) < MaxInFlight
    /\ error' = r.error
    /\ data' = r.data
    /\ loading' = r.loading
    /\ calls' = IF r.send.k = "undefined" THEN calls ELSE Append(calls, r.send)
    /\ bgClass' = BgClasses(r.data)
    /\ step' = [op |-> "onSubmit", out |-> Undefined]
    /\ UNCHANGED <<env, hx, city>>

Remove(s, i) == SubSeq(s, 1, i - 1) \o SubSeq(s, i + 1, Len(s))

\* a fetch of the page settles and its onSubmit runs to the end
FetchSettles ==
    \E i \in 1..Len(calls) :
        \E out \in Outcomes(calls[i]) :
            LET r == OnSubmitEnd(out, PageState) IN
            /\ error' = r.error
            /\ data' = r.data
            /\ loading' = r.loading
            /\ calls' = Remove(calls, i)
            /\ bgClass' = BgClasses(r.data)
            /\ step' = [op |-> "settle", out |-> out]
            /\ UNCHANGED <<env, hx, city>>

Next == SetCity \/ OnSubmit \/ FetchSettles

Spec == Init /\ [][Next]_vars

\* a submit control that is disabled for a blank city only
SubmitDisabledIgnoresLoading(c, l) == Falsy(Text(Trim(c)))

\* disabled={loading || !city.trim()} of the submit control
SubmitDisabled(c, l) == l \/ Falsy(Text(Trim(c)))

\* the user submits the form through the submit control
SubmitControl ==
    /\ ~SubmitDisabled(city, loading)
    /\ OnSubmit

\* the page when onSubmit is called through the submit control only
NextControl == SetCity \/ SubmitControl \/ FetchSettles

SpecControl == Init /\ [][NextControl]_vars

\* setData(payload) with a payload of some condition string, and the render
ShowPayload ==
    /\ data = Null
    /\ \E cond \in Conditions :
          data' = Obj([Payload(ParisBody, Text(<<"a">>), 2500).f EXCEPT
                          !.condition = Text(cond)])
    /\ bgClass' = BgClasses(data')
    /\ UNCHANGED <<env, hx, city, loading, error, calls, step>>

\* setData(null) of a new submission, and the render
ClearPayload ==
    /\ data # Null
    /\ data' = Null
    /\ bgClass' = BgClasses(data')
    /\ UNCHANGED <<env, hx, city, loading, error, calls, step>>

\* the page as far as its background theme goes
NextTheme == ShowPayload \/ ClearPayload

SpecTheme == Init /\ [][NextTheme]_vars

-----------------------------------------------------------------------------
(* Properties of the handler, under SpecPOST                               *)

Done == hx.stage = "done"

\* the execution issued its outbound call and the call has settled
Fetched == Done /\ hx.outbound # <<>>

\* the provider answered 2xx with a body that parses as JSON
ProvOkJson ==
    /\ Fetched
    /\ hx.prov.t = "response"
    /\ Ok(hx.prov)
    /\ hx.prov.body.k # "notjson"

KeyMissing == env.OPENWEATHER_API_KEY.k = "undefined" \/ env.OPENWEATHER_API_KEY = Str("")

IsBlank(cs) == \A i \in 1..Len(cs) : cs[i] = " "

\* the request carries no usable city: no body, not JSON, no city, blank city
ReqCityMissing(req) ==
    \/ req.k \in {"nobody", "notjson", "null", "num"}
    \/ /\ req.k = "obj"
       /\ \/ req.f.city.k \in {"undefined", "null"}
          \/ req.f.city.k = "text" /\ IsBlank(req.f.city.v)

\* the request carries a city string that is not blank
ReqCityGiven(req) ==
    req.k = "obj" /\ req.f.city.k = "text" /\ ~IsBlank(req.f.city.v)

NumericFields ==
    {"tempC", "feelsC", "humidity", "windKmh", "sunrise", "sunset", "timezone", "dt"}

PayloadFields ==
    NumericFields \cup {"city", "country", "condition", "description", "icon"}

\* the provider field a payload field is read from
Upstream(d, f) ==
    CASE f = "tempC" -> Get(Get(d, "main"), "temp")
      [] f = "feelsC" -> Get(Get(d, "main"), "feels_like")
      [] f = "humidity" -> Get(Get(d, "main"), "humidity")
      [] f = "windKmh" -> Get(Get(d, "wind"), "speed")
      [] f = "sunrise" -> Get(Get(d, "sys"), "sunrise")
      [] f = "sunset" -> Get(Get(d, "sys"), "sunset")
      [] f = "timezone" -> Get(d, "timezone")
      [] f = "dt" -> Get(d, "dt")
      [] f = "city" -> Get(d, "name")
      [] f = "country" -> Get(Get(d, "sys"), "country")
      [] f = "condition" -> Get(First(Get(d, "weather")), "main")
      [] f = "description" -> Get(First(Get(d, "weather")), "description")
      [] f = "icon" -> Get(First(Get(d, "weather")), "icon")

\* missing, or of a type or content that is no number
MissingOrNonNumeric(x) == IsNullish(x) \/ x.k \in {"obj", "arr"} \/ x = Str("abc")

\* C1: for every 2xx, JSON-parsable provider response every numeric field of
\* the returned body is a number, and is 0 (dt excepted) when the upstream
\* field is missing or non-numeric; the body carries no null for them.
C1_NumericFieldsAreNumbers ==
    ProvOkJson =>
        \A f \in NumericFields :
            /\ hx.res.body.f[f].k = "num"
            /\ (f # "dt" /\ MissingOrNonNumeric(Upstream(hx.prov.body, f)))
                   => hx.res.body.f[f] = Num(0)

\* C2 as stated: with the credential not configured every request, whatever
\* its body, is answered 500 naming the variable and issues no outbound call.
C2_MissingKeyAlways500 ==
    (Done /\ KeyMissing) =>
        /\ hx.res.status = 500
        /\ hx.res.body = ErrorBody(MissingKey)
        /\ hx.outbound = <<>>

\* C2 amended: with the credential not configured no execution issues an
\* outbound call, and every request that carries a non-blank city string is
\* answered 500 naming the variable.
C2_MissingKey500ForGivenCity ==
    KeyMissing =>
        /\ hx.outbound = <<>>
        /\ hx.stage \notin {"fetching", "crashed"}
        /\ (Done /\ ReqCityGiven(hx.req)) =>
               /\ hx.res.status = 500
               /\ hx.res.body = ErrorBody(MissingKey)

C2_Witness ==
    /\ Done
    /\ KeyMissing
    /\ ReqCityGiven(hx.req)
    /\ hx.res.status = 500
    /\ hx.res.body = ErrorBody(MissingKey)

\* C3: a request with no body, a body that is not JSON, no city or a blank
\* city is answered 400 "City is required." and issues no outbound call.
C3_CityRequired400 ==
    (hx.stage # "idle" /\ ReqCityMissing(hx.req)) =>
        /\ Done
        /\ hx.res.status = 400
        /\ hx.res.body = ErrorBody(CityRequired)
        /\ hx.outbound = <<>>

C3_Witness ==
    /\ Done
    /\ hx.req = Obj([city |-> Text(<<" ", " ">>)])
    /\ hx.res.status = 400
    /\ hx.res.body = ErrorBody(CityRequired)

\* the message C4 expects for a provider error body
C4_Message(body) ==
    IF body.k = "obj" /\ body.f.message.k \in {"str", "text"}
    THEN body.f.message ELSE FailedToFetch

\* C4: for every provider response that is not 2xx the handler returns the
\* provider's status unchanged with {error: m}, m the provider's message
\* when it is a string and "Failed to fetch weather." otherwise.
C4_UpstreamStatusForwarded ==
    (hx.stage # "fetching" /\ hx.outbound # <<>> /\ hx.prov.t = "response"
        /\ hx.prov.status \notin 200..299) =>
        /\ Done
        /\ hx.res.status = hx.prov.status
        /\ hx.res.body = ErrorBody(C4_Message(hx.prov.body))

IsErrorBody(b) ==
    b.k = "obj" /\ DOMAIN b.f = {"error"} /\ b.f.error.k = "str"

IsPayloadBody(b) == b.k = "obj" /\ DOMAIN b.f = PayloadFields

\* the faults no other path of POST handles: a city that is no string, a
\* failed outbound call, a 2xx provider body that is not JSON
Faulted ==
    \/ hx.req.k = "obj" /\ hx.req.f.city.k = "num"
    \/ hx.outbound # <<>> /\ hx.prov.t = "reject"
    \/ hx.outbound # <<>> /\ hx.prov.t = "response" /\ Ok(hx.prov)
          /\ hx.prov.body.k = "notjson"

\* C5: every execution of POST ends by returning one structured response,
\* the 200 payload or {error: string} with a status; a fault no other path
\* handles gives 500 "Unexpected server error fetching weather."; no fault
\* leaves the handler.
C5_AlwaysStructuredResponse ==
    /\ hx.stage \in {"idle", "fetching", "done"}
    /\ Done =>
          /\ \/ hx.res.status = 200 /\ IsPayloadBody(hx.res.body)
             \/ hx.res.status \in 400..599 /\ IsErrorBody(hx.res.body)
          /\ Faulted =>
                /\ hx.res.status = 500
                /\ hx.res.body = ErrorBody(UnexpectedServerError)

C5_Witness ==
    /\ Done
    /\ hx.outbound # <<>>
    /\ hx.prov.t = "reject"
    /\ hx.res = [status |-> 500, body |-> ErrorBody(UnexpectedServerError)]

\* r is x (hundredths) rounded to the nearest integer, halves upwards
RoundsTo(r, x) ==
    r.k = "num" /\ r.v % 100 = 0 /\ r.v - 50 <= x /\ x < r.v + 50

\* r is x m/s (hundredths) in km/h, rounded
RoundsToKmh(r, x) ==
    r.k = "num" /\ r.v % 100 = 0 /\ 10 * (r.v - 50) <= 36 * x /\ 36 * x < 10 * (r.v + 50)

\* C6: for a non-empty city and a successful provider response POST
\* returns 200 with the fixed field mapping of the provider body.
C6_PayloadMapping ==
    ProvOkJson =>
        LET d == hx.prov.body
            p == hx.res.body.f
            u(f) == Upstream(d, f)
            same(f) == u(f).k = "num" => p[f] = u(f)
            from(f, dflt) == p[f] = IF IsNullish(u(f)) THEN dflt ELSE u(f)
        IN  /\ hx.res.status = 200
            /\ IsPayloadBody(hx.res.body)
            /\ from("city", Text(Trim(hx.req.f.city.v)))
            /\ from("country", Str(""))
            /\ from("condition", Str(""))
            /\ from("description", Str(""))
            /\ from("icon", Str("01d"))
            /\ u("tempC").k = "num" => RoundsTo(p.tempC, u("tempC").v)
            /\ u("feelsC").k = "num" => RoundsTo(p.feelsC, u("feelsC").v)
            /\ u("windKmh").k = "num" => RoundsToKmh(p.windKmh, u("windKmh").v)
            /\ same("humidity")
            /\ same("sunrise")
            /\ same("sunset")
            /\ same("timezone")
            /\ same("dt")
            /\ IsNullish(u("dt")) =>
                  p.dt.k = "num" /\ p.dt.v % 100 = 0
                      /\ 10 * p.dt.v <= hx.now /\ hx.now < 10 * p.dt.v + 1000

C6_Witness ==
    /\ Done
    /\ hx.outbound = <<[q |-> Text(<<"a">>), appid |-> Str("k"), units |-> "metric"]>>
    /\ hx.prov = [t |-> "response", status |-> 200, body |-> ParisBody]
    /\ hx.res =
          [status |-> 200,
           body |-> Obj([city |-> Text(Paris), country |-> Str("FR"), tempC |-> Num(2000),
                         feelsC |-> Num(2000), condition |-> Str("Clear"),
                         description |-> Str("clear sky"), icon |-> Str("01d"),
                         humidity |-> Num(5500), windKmh |-> Num(1800),
                         sunrise |-> Num(100000), sunset |-> Num(200000),
                         timezone |-> Num(360000), dt |-> Num(150000)])]

-----------------------------------------------------------------------------
(* Properties of the client page, under Spec                               *)

\* the last operation was an onSubmit / the settling of a fetch
Submitted == step.op = "onSubmit"
Settled == step.op = "settle"

\* the settled fetch brought a response that is not OK
SettledNotOk == Settled /\ step.out.t = "response" /\ ~Ok(step.out)

\* the settled fetch brought an OK response whose body parsed
SettledOk ==
    Settled /\ step.out.t = "response" /\ Ok(step.out) /\ step.out.body.k # "notjson"

\* C7: a call of onSubmit with an empty or whitespace-only city field sends
\* nothing to the handler and leaves the error "Please enter a city name.",
\* whatever the page state before.
C7_BlankCityNoCall ==
    [][(Submitted' /\ IsBlank(city)) => (error' = PleaseEnter /\ calls' = calls)]_vars

C7_Witness ==
    /\ Submitted
    /\ city = <<" ">>
    /\ error = PleaseEnter
    /\ data # Null
    /\ calls = <<>>

\* the message C8 states for a response that is not OK
C8_StatedMessage(res) ==
    IF res.status = 404 THEN CityNotFound
    ELSE IF res.body.k = "obj" /\ "error" \in DOMAIN res.body.f THEN res.body.f.error
    ELSE FailedToFetch

\* C8 as stated: for a response that is not OK the error shown is the 404
\* text for status 404, else the body's error field when the body parses
\* as JSON, else "Failed to fetch weather."; no payload is stored.
C8_ErrorFieldShown ==
    [][SettledNotOk' => (error' = C8_StatedMessage(step'.out) /\ data' = data)]_vars

\* the message of C8 as amended: the error field is used when it is a
\* string that is not empty
C8_AmendedMessage(res) ==
    IF res.status = 404 THEN CityNotFound
    ELSE IF res.body.k = "obj" /\ "error" \in DOMAIN res.body.f
            /\ res.body.f.error.k = "str" /\ res.body.f.error.v # ""
    THEN res.body.f.error
    ELSE FailedToFetch

\* C8 amended: for a response that is not OK the error shown is the 404
\* text for status 404, else the body's error field when the body parses
\* as JSON and the field is a non-empty string, else "Failed to fetch
\* weather."; no payload is stored.
C8_NonEmptyErrorFieldShown ==
    [][SettledNotOk' => (error' = C8_AmendedMessage(step'.out) /\ data' = data)]_vars

C8_Witness ==
    /\ SettledNotOk
    /\ step.out.status = 404
    /\ step.out.body = ErrorBody(Str("city not found"))
    /\ error = CityNotFound
    /\ data = Null

\* C9: the settling of a submission's fetch leaves loading false on every
\* path, and loading is true only while a fetch of the page is in flight.
C9_LoadingCleared ==
    /\ Settled => ~loading
    /\ loading => calls # <<>>

C9_Witness ==
    /\ Settled
    /\ step.out.t = "reject"
    /\ error = NetworkError.message
    /\ ~loading
    /\ calls = <<>>

\* C10: the stored payload becomes none only in an onSubmit with a
\* non-blank city; the validation path, a failed response and a thrown
\* fault leave it as it is; the settling of a fetch sends no new request.
C10_PayloadKept ==
    [][/\ (data # Null /\ data' = Null) => (Submitted' /\ ~IsBlank(city))
       /\ (Submitted' /\ IsBlank(city)) => data' = data
       /\ (Settled' /\ ~SettledOk') => data' = data
       /\ Settled' => Len(calls') = Len(calls) - 1
       /\ (Submitted' /\ ~IsBlank(city)) => Len(calls') = Len(calls) + 1]_vars

C10_Witness ==
    /\ Settled
    /\ ~SettledOk
    /\ data # Null
    /\ error # Null

-----------------------------------------------------------------------------
(* Properties of the client page, under SpecControl                        *)

\* C11: with submits issued through the submit control only, at most one
\* call of the handler is in flight at any time, and every accepted submit
\* sends exactly one.
C11_OneCallInFlight ==
    [][/\ Len(calls') <= 1
       /\ Submitted' => (calls = <<>> /\ Len(calls') = 1)
       /\ Settled' => calls' = <<>>]_vars

C11_Witness ==
    /\ Submitted
    /\ loading
    /\ Len(calls) = 1
    /\ calls[1] = Obj([city |-> Text(<<"a">>)])
    /\ city = <<" ", "a">>

-----------------------------------------------------------------------------
(* Properties of getBackgroundClass, under SpecTheme                       *)

\* the keywords of the six rules, in the order of the code
RuleKeywords ==
    <<{KwClear}, {KwCloud}, {KwRain, KwDrizzle}, {KwThunder}, {KwSnow},
      {KwMist, KwFog, KwHaze, KwSmoke}>>

\* the rules whose keyword the shown condition contains, whatever its case
Matching ==
    LET c == ToLowerCase(CondChars(Get(data, "condition"))) IN
    {i \in 1..Len(RuleKeywords) : \E kw \in RuleKeywords[i] : Includes(c, kw)}

FirstOf(m) == CHOOSE i \in m : \A j \in m : i <= j

\* C12 as stated: every condition string matches at most one of the six
\* rules, and the theme is that of the one matching rule, the default gray
\* theme when none matches.
C12_RulesExclusive ==
    /\ Cardinality(Matching) <= 1
    /\ bgClass["route"] =
          IF Matching = {} THEN RouteDefault ELSE RouteClasses[FirstOf(Matching)]
    /\ bgClass["part_000"] =
          IF Matching = {} THEN Part000Default ELSE Part000Classes[FirstOf(Matching)]

\* C12 amended: a condition string can match several rules; the theme is
\* that of the first matching rule in the order clear, cloud, rain/drizzle,
\* thunder, snow, mist/fog/haze/smoke, under case-insensitive substring
\* matching, and the default gray theme when none matches.
C12_FirstMatchingRule ==
    /\ bgClass["route"] =
          IF Matching = {} THEN RouteDefault ELSE RouteClasses[FirstOf(Matching)]
    /\ bgClass["part_000"] =
          IF Matching = {} THEN Part000Default ELSE Part000Classes[FirstOf(Matching)]

C12_Witness ==
    /\ data.k = "obj"
    /\ data.f.condition = Text(<<"T", "h", "u", "n", "d", "e", "r", "s", "t", "o", "r", "m">> \o <<" ">> \o <<"R", "a", "i", "n">>)
    /\ Matching = {3, 4}
    /\ bgClass["route"] = RouteClasses[3]
    /\ bgClass["part_000"] = Part000Classes[3]

====
